---- MODULE Spec2Model ----
(***************************************************************************)
(* Model of src/main.rs: an axum front-end that forwards a prompt to the   *)
(* Bedrock runtime client and relays the generated text, either as one     *)
(* response (POST /prompt) or as a stream of text fragments                *)
(* (POST /prompt/streamed, futures::stream::unfold over the event          *)
(* receiver).                                                              *)
(*                                                                         *)
(* Option<T> is modelled as a sequence of length 0 (None) or 1 (Some).     *)
(* Bytes holding JSON are modelled as the JSON document they spell: a      *)
(* flag for syntactic validity plus the typed members serde looks at.      *)
(***************************************************************************)
EXTENDS Integers, Sequences, FiniteSets, TLC

\* ------------------------------------------------------------ bounds
\* Longest event script a provider stream delivers before end-of-stream.
MaxChunks == 4
\* Number of request slots the state holds.
MaxReqs == 2

\* ------------------------------------------------------------ constants
HTTP_OK == 200
BAD_REQUEST == 400
INTERNAL_SERVER_ERROR == 500

Reqs == 1..MaxReqs
\* requests driven by the single-request specification
Solo == {1}

None == << >>
Some(x) == << x >>
IsSome(o) == Len(o) = 1
Unwrap(o) == o[1]

\* ------------------------------------------------------------ JSON values
\* A JSON member as serde sees it: its type tag and its content.
\* "num" is an integer literal that fits an i32, "bignum" one that does not.
JNum(n) == [t |-> "num", n |-> n, s |-> ""]
JBigNum == [t |-> "bignum", n |-> 0, s |-> ""]
\* an f32, printed with a fractional part: JF32(0) is the text 0.0
JF32(n) == [t |-> "float", n |-> n, s |-> ""]
JStr(s) == [t |-> "str", n |-> 0, s |-> s]
JAbsent == [t |-> "absent", n |-> 0, s |-> ""]

\* One element of the "results" array of a Titan response.
JCand(text) ==
  [tokenCount |-> JNum(1), outputText |-> JStr(text), completionReason |-> JStr("FINISH")]
\* An element whose outputText member is missing.
JCandNoText ==
  [tokenCount |-> JNum(1), outputText |-> JAbsent, completionReason |-> JStr("FINISH")]

JDoc(count, hasResults, items) ==
  [syntax |-> TRUE, inputTextTokenCount |-> count, hasResults |-> hasResults, results |-> items]

DocA == JDoc(JNum(3), TRUE, << JCand("a") >>)
DocBA == JDoc(JNum(3), TRUE, << JCand("b"), JCand("a") >>)
DocGarbage == [syntax |-> FALSE, inputTextTokenCount |-> JAbsent, hasResults |-> FALSE, results |-> << >>]
DocNoText == JDoc(JNum(3), TRUE, << JCandNoText >>)
DocEmpty == JDoc(JNum(3), TRUE, << >>)
DocOverflow == JDoc(JBigNum, TRUE, << JCand("a") >>)
DocLaterBad == JDoc(JNum(3), TRUE, << JCand("a"), JCandNoText >>)
DocNoResults == JDoc(JNum(3), FALSE, << >>)

\* Response bodies the provider may return to invoke_model.
Docs == {DocA, DocBA, DocGarbage, DocNoText, DocEmpty, DocOverflow, DocLaterBad, DocNoResults}
\* Payloads the provider may put in a streamed chunk.
StreamDocs == {DocA, DocBA, DocGarbage, DocNoText, DocEmpty}

\* Prompts a caller may post.
Prompts == {"hello", "|"}

\* ------------------------------------------------------------ events
\* What one recv() on the event receiver can deliver before end-of-stream:
\* ResponseStream::Chunk (bytes: Option<Blob>), ResponseStream::Unknown, or an error.
ChunkEv(doc) == [kind |-> "Chunk", bytes |-> Some(doc)]
ChunkNoBytes == [kind |-> "Chunk", bytes |-> None]
UnknownEv == [kind |-> "Unknown", bytes |-> None]
RecvErrEv == [kind |-> "RecvErr", bytes |-> None]

Events == {ChunkEv(d) : d \in StreamDocs} \cup {ChunkNoBytes, UnknownEv, RecvErrEv}

Scripts == UNION {[1..n -> Events] : n \in 0..MaxChunks}

\* Result<T, E>: ok with a value, or an error.
Ok(x) == [ok |-> TRUE, val |-> Some(x)]
Err == [ok |-> FALSE, val |-> None]

\* What invoke_model().send() can resolve to.
SendResults == {Ok(d) : d \in Docs} \cup {Err}
\* What invoke_model_with_response_stream().send() can resolve to, for a
\* provider whose streams are the scripts of S.
StreamSendResults(S) == {Ok(s) : s \in S} \cup {Err}

\* ------------------------------------------------------------ request codec
\* Variant: the stop sequences also carry the caller's prompt.
TitanRequest_new_PromptInConfig(p) ==
  [input_text |-> p,
   text_generation_config |->
     [temperature |-> 0, top_p |-> 0, max_token_count |-> 100,
      stop_sequences |-> IF p = "|" THEN << "|", p >> ELSE << "|" >>]]

\* TitanRequest::new
TitanRequest_new(p) ==
  [input_text |-> p,
   text_generation_config |->
     [temperature |-> 0, top_p |-> 0, max_token_count |-> 100,
      stop_sequences |-> << "|" >>]]

\* #[derive(Serialize)] #[serde(rename_all = "camelCase")] on TitanRequest and
\* TextGenConfig: the JSON object serde_json::to_vec writes for a request.
to_vec(q) ==
  [inputText |-> JStr(q.input_text),
   textGenerationConfig |->
     [temperature |-> JF32(q.text_generation_config.temperature),
      topP |-> JF32(q.text_generation_config.top_p),
      maxTokenCount |-> JNum(q.text_generation_config.max_token_count),
      stopSequences |->
        [i \in 1..Len(q.text_generation_config.stop_sequences) |->
           JStr(q.text_generation_config.stop_sequences[i])]]]

IsI32(v) == v.t = "num"
IsString(v) == v.t = "str"

\* #[derive(Deserialize)] on TitanTextResult: every member is required.
CandDecodes(c) ==
  IsI32(c.tokenCount) /\ IsString(c.outputText) /\ IsString(c.completionReason)

\* serde_json::from_slice::<TitanResponse>: the whole document must be valid
\* JSON with both members present and every element of results well typed.
from_slice(d) ==
  IF /\ d.syntax
     /\ IsI32(d.inputTextTokenCount)
     /\ d.hasResults
     /\ \A i \in 1..Len(d.results) : CandDecodes(d.results[i])
  THEN Ok([input_text_token_count |-> d.inputTextTokenCount.n,
           results |->
             [i \in 1..Len(d.results) |->
                [token_count |-> d.results[i].tokenCount.n,
                 output_text |-> d.results[i].outputText.s,
                 completion_reason |-> d.results[i].completionReason.s]]])
  ELSE Err

\* <[T]>::first
first(v) == IF Len(v) = 0 THEN None ELSE Some(v[1])

\* ------------------------------------------------------------ handler bodies
Panic == [kind |-> "panic", status |-> None, text |-> ""]
Response(code, text) == [kind |-> "resp", status |-> Some(code), text |-> text]

\* <[T]>::last
last(v) == IF Len(v) = 0 THEN None ELSE Some(v[Len(v)])

\* Variant: the last candidate is returned instead of the first.
prompt_tail_Last(res) ==
  IF ~res.ok THEN Panic
  ELSE LET response_body == from_slice(Unwrap(res.val)) IN
       IF ~response_body.ok THEN Response(INTERNAL_SERVER_ERROR, "")
       ELSE LET f == last(Unwrap(response_body.val).results) IN
            IF ~IsSome(f) THEN Response(INTERNAL_SERVER_ERROR, "")
            ELSE Response(HTTP_OK, Unwrap(f).output_text)

\* prompt(), from the resolution of send().await to the return.
prompt_tail(res) ==
  IF ~res.ok THEN Panic
  ELSE LET response_body == from_slice(Unwrap(res.val)) IN
       IF ~response_body.ok THEN Response(INTERNAL_SERVER_ERROR, "")
       ELSE LET f == first(Unwrap(response_body.val).results) IN
            IF ~IsSome(f) THEN Response(INTERNAL_SERVER_ERROR, "")
            ELSE Response(HTTP_OK, Unwrap(f).output_text)

\* EventReceiver::recv on a source that has delivered n events of script s:
\* Ok(Some(event)), Ok(None) at end-of-stream, or Err.
recv(s, n) ==
  IF n >= Len(s) THEN Ok(None)
  ELSE IF s[n + 1].kind = "RecvErr" THEN Err
  ELSE Ok(Some(s[n + 1]))

StepPanic == [kind |-> "panic", text |-> ""]
StepNone == [kind |-> "None", text |-> ""]
StepSome(text) == [kind |-> "Some", text |-> text]

\* The closure with its branches as parameters: what it returns for a
\* non-chunk event, for bytes that do not decode, for an empty results list,
\* and which candidate it takes (TRUE: the first, FALSE: the last).
closure_with(m, onControl, onDecodeErr, onEmpty, takeFirst) ==
  IF ~m.ok THEN StepPanic
  ELSE LET message == Unwrap(m.val) IN
       IF ~IsSome(message) THEN StepNone
       ELSE IF Unwrap(message).kind # "Chunk" THEN onControl
       ELSE IF ~IsSome(Unwrap(message).bytes) THEN StepPanic
       ELSE LET response_body == from_slice(Unwrap(Unwrap(message).bytes)) IN
            IF ~response_body.ok THEN onDecodeErr
            ELSE LET f == IF takeFirst THEN first(Unwrap(response_body.val).results)
                          ELSE last(Unwrap(response_body.val).results) IN
                 IF ~IsSome(f) THEN onEmpty
                 ELSE StepSome(Unwrap(f).output_text)

\* Variant: the last candidate's text is emitted instead of the first's.
unfold_closure_Last(m) == closure_with(m, StepNone, StepNone, StepNone, FALSE)
\* Variant: an empty results list yields an empty fragment and the stream goes on.
unfold_closure_EmptyGoesOn(m) == closure_with(m, StepNone, StepNone, StepSome(""), TRUE)
\* Variant: bytes that do not decode put an error text in the body.
unfold_closure_ErrorText(m) == closure_with(m, StepNone, StepSome("error"), StepNone, TRUE)
\* Variant: a control event yields an empty fragment and the stream goes on.
unfold_closure_ControlGoesOn(m) == closure_with(m, StepSome(""), StepNone, StepNone, TRUE)

\* The closure given to stream::unfold, from the resolution of recv().await
\* to its return value: None ends the stream, Some((text, state)) yields.
unfold_closure(m) ==
  IF ~m.ok THEN StepPanic
  ELSE LET message == Unwrap(m.val) IN
       IF ~IsSome(message) THEN StepNone
       ELSE IF Unwrap(message).kind # "Chunk" THEN StepNone
       ELSE IF ~IsSome(Unwrap(message).bytes) THEN StepPanic
       ELSE LET response_body == from_slice(Unwrap(Unwrap(message).bytes)) IN
            IF ~response_body.ok THEN StepNone
            ELSE LET f == first(Unwrap(response_body.val).results) IN
                 IF ~IsSome(f) THEN StepNone
                 ELSE StepSome(Unwrap(f).output_text)

\* ------------------------------------------------------------ state
VARIABLES
  pc,        \* per request: "idle", "awaitSend", "streaming", "done", "panicked", "aborted"
  route,     \* per request: "none", "prompt", "streamed"
  promptIn,  \* per request: the prompt posted
  req,       \* per request: Option<TitanRequest>, the request built
  sent,      \* per request: Option of the payload handed to the client
  invokes,   \* per request: calls made on the inference client
  reply,     \* per request: Option of what invoke_model().send() resolved to
  status,    \* per request: Option of the status of the response the handler returned
  body,      \* per request: the texts written to the response body, in order
  script,    \* per request: the events its ChunkSource delivers, in order
  pos,       \* per request: events received from its ChunkSource
  adapter,   \* per request: unfold state "none", "Value", "Future", "Empty", "Panicked", "Dropped"
  polls,     \* per request: poll_next calls made by the HTTP layer
  source,    \* per request: its ChunkSource, "none", "open" or "released"
  disconnected, \* per request: its HTTP client went away mid-stream
  client     \* the inference client handle of AppState, shared by all requests

vars == << pc, route, promptIn, req, sent, invokes, reply, status, body, script, pos, adapter, polls,
          source, disconnected, client >>

\* create_client: the handle built once at startup.
create_client == [region |-> "eu-west-1", model_id |-> "amazon.titan-text-lite-v1:0:4k"]

Init ==
  /\ pc = [r \in Reqs |-> "idle"]
  /\ route = [r \in Reqs |-> "none"]
  /\ promptIn = [r \in Reqs |-> ""]
  /\ req = [r \in Reqs |-> None]
  /\ sent = [r \in Reqs |-> None]
  /\ invokes = [r \in Reqs |-> 0]
  /\ reply = [r \in Reqs |-> None]
  /\ status = [r \in Reqs |-> None]
  /\ body = [r \in Reqs |-> << >>]
  /\ script = [r \in Reqs |-> << >>]
  /\ pos = [r \in Reqs |-> 0]
  /\ adapter = [r \in Reqs |-> "none"]
  /\ polls = [r \in Reqs |-> 0]
  /\ source = [r \in Reqs |-> "none"]
  /\ disconnected = [r \in Reqs |-> FALSE]
  /\ client = create_client

\* Lines shared by both handlers: build the request, serialize it, and either
\* return 400 or hand the payload to the client and suspend on send().await.
\* serOk is the Result of serde_json::to_vec.
HandlerEntry(r, which, p, serOk) ==
  /\ pc[r] = "idle"
  /\ route' = [route EXCEPT ![r] = which]
  /\ promptIn' = [promptIn EXCEPT ![r] = p]
  /\ req' = [req EXCEPT ![r] = Some(TitanRequest_new(p))]
  /\ IF serOk
     THEN /\ sent' = [sent EXCEPT ![r] = Some(to_vec(TitanRequest_new(p)))]
          /\ invokes' = [invokes EXCEPT ![r] = @ + 1]
          /\ pc' = [pc EXCEPT ![r] = "awaitSend"]
          /\ status' = status
     ELSE /\ status' = [status EXCEPT ![r] = Some(BAD_REQUEST)]
          /\ pc' = [pc EXCEPT ![r] = "done"]
          /\ UNCHANGED << sent, invokes >>
  /\ UNCHANGED << reply, body, script, pos, adapter, polls, source, disconnected, client >>

\* POST /prompt arrives: prompt() runs to its first suspension or to the 400.
prompt_call(r) ==
  \E p \in Prompts, serOk \in BOOLEAN : HandlerEntry(r, "prompt", p, serOk)

\* Variant: a failed send() is retried once instead of unwrapped.
prompt_resume_Retry(r) ==
  /\ pc[r] = "awaitSend"
  /\ route[r] = "prompt"
  /\ \E res \in SendResults :
       LET out == prompt_tail(res) IN
       /\ reply' = [reply EXCEPT ![r] = Some(res)]
       /\ IF out.kind = "panic"
          THEN /\ pc' = [pc EXCEPT ![r] = IF invokes[r] < 2 THEN "awaitSend" ELSE "panicked"]
               /\ invokes' = [invokes EXCEPT ![r] = IF @ < 2 THEN @ + 1 ELSE @]
               /\ UNCHANGED << status, body >>
          ELSE /\ pc' = [pc EXCEPT ![r] = "done"]
               /\ invokes' = invokes
               /\ status' = [status EXCEPT ![r] = out.status]
               /\ body' = [body EXCEPT ![r] =
                             IF out.status = Some(HTTP_OK) THEN << out.text >> ELSE << >>]
  /\ UNCHANGED << route, promptIn, req, sent, script, pos, adapter, polls,
                  source, disconnected, client >>

\* send().await resolves in prompt(): the rest of the handler runs.
prompt_resume(r) ==
  /\ pc[r] = "awaitSend"
  /\ route[r] = "prompt"
  /\ \E res \in SendResults :
       LET out == prompt_tail(res) IN
       /\ reply' = [reply EXCEPT ![r] = Some(res)]
       /\ IF out.kind = "panic"
          THEN /\ pc' = [pc EXCEPT ![r] = "panicked"]
               /\ UNCHANGED << status, body >>
          ELSE /\ pc' = [pc EXCEPT ![r] = "done"]
               /\ status' = [status EXCEPT ![r] = out.status]
               /\ body' = [body EXCEPT ![r] =
                             IF out.status = Some(HTTP_OK) THEN << out.text >> ELSE << >>]
  /\ UNCHANGED << route, promptIn, req, sent, invokes, script, pos, adapter, polls,
                  source, disconnected, client >>

\* POST /prompt/streamed arrives.
streamed_prompt_call(r) ==
  \E p \in Prompts, serOk \in BOOLEAN : HandlerEntry(r, "streamed", p, serOk)

\* send().await resolves in streamed_prompt(): unwrap, build the unfold stream
\* over res.body and return Ok(StreamBodyAs::text(stream)).
streamed_prompt_resume(r, S) ==
  /\ pc[r] = "awaitSend"
  /\ route[r] = "streamed"
  /\ \E res \in StreamSendResults(S) :
       IF ~res.ok
       THEN /\ pc' = [pc EXCEPT ![r] = "panicked"]
            /\ UNCHANGED << status, script, adapter, source >>
       ELSE /\ pc' = [pc EXCEPT ![r] = "streaming"]
            /\ status' = [status EXCEPT ![r] = Some(HTTP_OK)]
            /\ script' = [script EXCEPT ![r] = Unwrap(res.val)]
            /\ adapter' = [adapter EXCEPT ![r] = "Value"]
            /\ source' = [source EXCEPT ![r] = "open"]
  /\ UNCHANGED << route, promptIn, req, sent, invokes, reply, body, pos, polls, disconnected, client >>

\* Variant: the stream is polled again after it returned None.
poll_next_AfterNone(r) ==
  /\ route[r] = "streamed"
  /\ adapter[r] \in {"Value", "Empty"}
  /\ adapter' = [adapter EXCEPT ![r] = "Future"]
  /\ pc' = [pc EXCEPT ![r] = "streaming"]
  /\ polls' = [polls EXCEPT ![r] = @ + 1]
  /\ UNCHANGED << route, promptIn, req, sent, invokes, reply, status, body, script, pos,
                  source, disconnected, client >>

\* The HTTP layer asks the body stream for its next item: Unfold::poll_next
\* takes the state value, calls the closure, and the closure suspends on recv().
poll_next(r) ==
  /\ pc[r] = "streaming"
  /\ adapter[r] = "Value"
  /\ adapter' = [adapter EXCEPT ![r] = "Future"]
  /\ polls' = [polls EXCEPT ![r] = @ + 1]
  /\ UNCHANGED << pc, route, promptIn, req, sent, invokes, reply, status, body, script, pos,
                  source, disconnected, client >>

\* Variant: one ChunkSource is kept in the shared state and every request's
\* adapter receives from it (the source of request 1).
closure_resume_Shared(r) ==
  /\ pc[r] = "streaming"
  /\ adapter[r] = "Future"
  /\ LET step == unfold_closure(recv(script[1], pos[1])) IN
       /\ pos' = [pos EXCEPT ![1] = IF @ < Len(script[1]) THEN @ + 1 ELSE @]
       /\ CASE step.kind = "panic" ->
                 /\ adapter' = [adapter EXCEPT ![r] = "Panicked"]
                 /\ pc' = [pc EXCEPT ![r] = "panicked"]
                 /\ body' = body
                 /\ source' = [source EXCEPT ![r] = "released"]
            [] step.kind = "Some" ->
                 /\ adapter' = [adapter EXCEPT ![r] = "Value"]
                 /\ body' = [body EXCEPT ![r] = Append(@, step.text)]
                 /\ pc' = pc
                 /\ source' = source
            [] OTHER ->
                 /\ adapter' = [adapter EXCEPT ![r] = "Empty"]
                 /\ pc' = [pc EXCEPT ![r] = "done"]
                 /\ body' = body
                 /\ source' = [source EXCEPT ![r] = "released"]
  /\ UNCHANGED << route, promptIn, req, sent, invokes, reply, status, script, polls, disconnected, client >>

\* Variant: after yielding a fragment the adapter asks the source for the
\* next event at once, without waiting for the HTTP layer's poll.
closure_resume_Eager(r) ==
  /\ pc[r] = "streaming"
  /\ adapter[r] = "Future"
  /\ LET step == unfold_closure(recv(script[r], pos[r])) IN
       /\ pos' = [pos EXCEPT ![r] = IF @ < Len(script[r]) THEN @ + 1 ELSE @]
       /\ CASE step.kind = "panic" ->
                 /\ adapter' = [adapter EXCEPT ![r] = "Panicked"]
                 /\ pc' = [pc EXCEPT ![r] = "panicked"]
                 /\ body' = body
                 /\ source' = [source EXCEPT ![r] = "released"]
            [] step.kind = "Some" ->
                 /\ adapter' = adapter
                 /\ body' = [body EXCEPT ![r] = Append(@, step.text)]
                 /\ pc' = pc
                 /\ source' = source
            [] OTHER ->
                 /\ adapter' = [adapter EXCEPT ![r] = "Empty"]
                 /\ pc' = [pc EXCEPT ![r] = "done"]
                 /\ body' = body
                 /\ source' = [source EXCEPT ![r] = "released"]
  /\ UNCHANGED << route, promptIn, req, sent, invokes, reply, status, script, polls, disconnected, client >>

\* recv().await resolves: the closure runs to its return and Unfold stores
\* the next state: Value after Some((text, state)), Empty after None.
closure_resume(r) ==
  /\ pc[r] = "streaming"
  /\ adapter[r] = "Future"
  /\ LET step == unfold_closure(recv(script[r], pos[r])) IN
       /\ pos' = [pos EXCEPT ![r] = IF @ < Len(script[r]) THEN @ + 1 ELSE @]
       /\ CASE step.kind = "panic" ->
                 /\ adapter' = [adapter EXCEPT ![r] = "Panicked"]
                 /\ pc' = [pc EXCEPT ![r] = "panicked"]
                 /\ body' = body
                 /\ source' = [source EXCEPT ![r] = "released"]
            [] step.kind = "Some" ->
                 /\ adapter' = [adapter EXCEPT ![r] = "Value"]
                 /\ body' = [body EXCEPT ![r] = Append(@, step.text)]
                 /\ pc' = pc
                 /\ source' = source
            [] OTHER ->
                 /\ adapter' = [adapter EXCEPT ![r] = "Empty"]
                 /\ pc' = [pc EXCEPT ![r] = "done"]
                 /\ body' = body
                 /\ source' = [source EXCEPT ![r] = "released"]
  /\ UNCHANGED << route, promptIn, req, sent, invokes, reply, status, script, polls, disconnected, client >>

\* Variant: the stream lives in a task of its own, so a client going away
\* does not drop it.
client_disconnect_Detached(r) ==
  /\ pc[r] = "streaming"
  /\ ~disconnected[r]
  /\ disconnected' = [disconnected EXCEPT ![r] = TRUE]
  /\ UNCHANGED << pc, route, promptIn, req, sent, invokes, reply, status, body, script, pos,
                  adapter, polls, source, client >>

\* The HTTP client goes away mid-stream and the HTTP layer drops the response
\* body: Ok(StreamBodyAs::text(stream)) owns the unfold stream, whose state
\* (or pending closure future) owns res.body, so the ChunkSource is dropped
\* with it.
client_disconnect(r) ==
  /\ pc[r] = "streaming"
  /\ ~disconnected[r]
  /\ disconnected' = [disconnected EXCEPT ![r] = TRUE]
  /\ adapter' = [adapter EXCEPT ![r] = "Dropped"]
  /\ source' = [source EXCEPT ![r] = "released"]
  /\ pc' = [pc EXCEPT ![r] = "aborted"]
  /\ UNCHANGED << route, promptIn, req, sent, invokes, reply, status, body, script, pos,
                  polls, client >>

\* One step of request r, served by a provider whose streams are the scripts of S.
Step(r, S) ==
  \/ prompt_call(r)
  \/ prompt_resume(r)
  \/ streamed_prompt_call(r)
  \/ streamed_prompt_resume(r, S)
  \/ poll_next(r)
  \/ closure_resume(r)
  \/ client_disconnect(r)

\* One request handled on its own.
Next == \E r \in Solo : Step(r, Scripts)

Spec == Init /\ [][Next]_vars

\* Streams the provider delivers to concurrently handled requests.
ConcScripts ==
  { << ChunkEv(DocA), ChunkEv(DocBA) >>,
    << ChunkEv(DocBA), UnknownEv, ChunkEv(DocA) >>,
    << ChunkEv(DocBA), RecvErrEv >>,
    << ChunkEv(DocEmpty) >> }

\* Every request slot is served, their steps interleaved in any order.
NextConc == \E r \in Reqs : Step(r, ConcScripts)

SpecConc == Init /\ [][NextConc]_vars

\* ------------------------------------------------------------ claim vocabulary
\* A data chunk whose bytes decode to a result with at least one candidate.
WellFormed(ev) ==
  /\ ev.kind = "Chunk"
  /\ IsSome(ev.bytes)
  /\ from_slice(Unwrap(ev.bytes)).ok
  /\ Len(Unwrap(ev.bytes).results) >= 1

\* A data chunk whose bytes fail to decode, or decode to zero candidates.
Malformed(ev) ==
  /\ ev.kind = "Chunk"
  /\ IsSome(ev.bytes)
  /\ (~from_slice(Unwrap(ev.bytes)).ok \/ Len(Unwrap(ev.bytes).results) = 0)

\* The outputText member of the first element of results, read off the JSON.
FirstTextOfDoc(d) == d.results[1].outputText.s
FirstText(ev) == FirstTextOfDoc(Unwrap(ev.bytes))

\* The request's stream has been opened (invoke_model_with_response_stream succeeded).
Streaming(r) == route[r] = "streamed" /\ adapter[r] # "none"
\* The stream has ended, normally or by a fault.
Ended(r) == adapter[r] \in {"Empty", "Panicked"}

\* Number of leading well-formed data chunks of a script.
RECURSIVE GoodPrefixLen(_)
GoodPrefixLen(s) ==
  IF Len(s) = 0 \/ ~WellFormed(Head(s)) THEN 0 ELSE 1 + GoodPrefixLen(Tail(s))

\* The body holds the first texts of the first Len(body) chunks, in order.
BodyIsPrefixOfTexts(r) ==
  /\ Len(body[r]) <= Len(script[r])
  /\ \A i \in 1..Len(body[r]) :
       WellFormed(script[r][i]) /\ body[r][i] = FirstText(script[r][i])

\* ------------------------------------------------------------ C1
\* C1: when every chunk of the source is a well-formed data chunk (N of them,
\* N >= 0, then end-of-stream), the fragments emitted so far are the first
\* candidates' texts of the first chunks in arrival order, the task never
\* faults, and once the stream has ended exactly N fragments were emitted.
C1_AllFragmentsInOrder ==
  \A r \in Reqs :
    (Streaming(r) /\ \A i \in 1..Len(script[r]) : WellFormed(script[r][i])) =>
      /\ pc[r] # "panicked"
      /\ adapter[r] # "Panicked"
      /\ BodyIsPrefixOfTexts(r)
      /\ adapter[r] # "Dropped" =>
           Len(body[r]) = (IF adapter[r] = "Future" THEN polls[r] - 1 ELSE polls[r])
                          - (IF adapter[r] = "Empty" THEN 1 ELSE 0)
      /\ adapter[r] = "Empty" =>
           /\ pc[r] = "done"
           /\ Len(body[r]) = Len(script[r])
           /\ pos[r] = Len(script[r])

\* Three well-formed chunks with differing texts were relayed and the stream ended.
C1_Witness ==
  /\ Streaming(1)
  /\ adapter[1] = "Empty"
  /\ Len(script[1]) >= 3
  /\ \A i \in 1..Len(script[1]) : WellFormed(script[1][i])
  /\ Len(body[1]) = Len(script[1])
  /\ body[1][1] # body[1][2]
  /\ Len(Unwrap(script[1][1].bytes).results) >= 2

\* ------------------------------------------------------------ C2
\* C2: when chunk k is the first malformed one and chunks 1..k-1 are
\* well-formed, at most k events are ever received, at most k-1 fragments are
\* emitted, and once chunk k was received the stream has ended normally with
\* exactly the k-1 texts of the chunks before it.
C2_StopsAtFirstMalformed ==
  \A r \in Reqs : \A k \in 1..Len(script[r]) :
    (Streaming(r) /\ Malformed(script[r][k])
       /\ \A i \in 1..(k - 1) : WellFormed(script[r][i])) =>
      /\ pos[r] <= k
      /\ Len(body[r]) <= k - 1
      /\ BodyIsPrefixOfTexts(r)
      /\ pos[r] = k =>
           /\ adapter[r] = "Empty"
           /\ pc[r] = "done"
           /\ Len(body[r]) = k - 1

\* The 3rd chunk was malformed, a 4th was still to come, and the stream ended
\* after two fragments.
C2_Witness ==
  /\ Streaming(1)
  /\ Len(script[1]) >= 4
  /\ WellFormed(script[1][1]) /\ WellFormed(script[1][2])
  /\ Malformed(script[1][3])
  /\ WellFormed(script[1][4])
  /\ adapter[1] = "Empty"
  /\ Len(body[1]) = 2
  /\ pos[1] = 3

\* ------------------------------------------------------------ C3
\* C3: whenever a pull on the source has failed (the last event received is a
\* channel error) the stream has ended normally, without a fault of the task,
\* with the fragments emitted before the failure.
C3_RecvFailureEndsSilently ==
  \A r \in Reqs :
    (Streaming(r) /\ pos[r] >= 1 /\ script[r][pos[r]].kind = "RecvErr") =>
      /\ adapter[r] = "Empty"
      /\ pc[r] = "done"
      /\ Len(body[r]) = pos[r] - 1

\* ------------------------------------------------------------ C4
\* The serializer returned an error for this request: a request was built and
\* nothing was handed to the client.
EncodingFailed(r) == IsSome(req[r]) /\ ~IsSome(sent[r])

\* C4: on /prompt, a failed encoding is answered 400; returned bytes that do
\* not decode, or decode to zero candidates, are answered 500; any other
\* returned bytes are answered 200 with exactly the first candidate's text.
C4_PromptStatusMapping ==
  \A r \in Reqs : route[r] = "prompt" =>
    /\ EncodingFailed(r) =>
         pc[r] = "done" /\ status[r] = Some(BAD_REQUEST) /\ body[r] = << >>
    /\ (IsSome(reply[r]) /\ Unwrap(reply[r]).ok) =>
         LET d == Unwrap(Unwrap(reply[r]).val) IN
         /\ pc[r] = "done"
         /\ IF from_slice(d).ok /\ Len(d.results) >= 1
            THEN status[r] = Some(HTTP_OK) /\ body[r] = << FirstTextOfDoc(d) >>
            ELSE status[r] = Some(INTERNAL_SERVER_ERROR) /\ body[r] = << >>

\* A reply with two candidates of differing texts was answered 200 with the first.
C4_Witness ==
  /\ route[1] = "prompt"
  /\ IsSome(reply[1]) /\ Unwrap(reply[1]).ok
  /\ Len(Unwrap(Unwrap(reply[1]).val).results) = 2
  /\ status[1] = Some(HTTP_OK)
  /\ body[1] = << "b" >>

\* ------------------------------------------------------------ C5
\* C5: on /prompt, a failed invoke_model call ends the request with a 5xx
\* response and not with a fault of the request's task.
C5_InvokeFailureIs5xx ==
  \A r \in Reqs :
    (route[r] = "prompt" /\ IsSome(reply[r]) /\ ~Unwrap(reply[r]).ok) =>
      /\ pc[r] = "done"
      /\ IsSome(status[r])
      /\ Unwrap(status[r]) >= 500 /\ Unwrap(status[r]) <= 599

\* ------------------------------------------------------------ C6
\* C6: on /prompt/streamed, a failed encoding is answered 400 with no body;
\* once the stream is open the status is 200 in every later state, whatever
\* the source delivers, and the body is the texts of the leading well-formed
\* chunks: all of them once the stream has ended.
C6_StreamedStatusMapping ==
  \A r \in Reqs : route[r] = "streamed" =>
    /\ EncodingFailed(r) =>
         /\ pc[r] = "done" /\ status[r] = Some(BAD_REQUEST)
         /\ body[r] = << >> /\ adapter[r] = "none"
    /\ Streaming(r) =>
         /\ status[r] = Some(HTTP_OK)
         /\ BodyIsPrefixOfTexts(r)
         /\ Len(body[r]) <= GoodPrefixLen(script[r])
         /\ Ended(r) => Len(body[r]) = GoodPrefixLen(script[r])

\* A stream ended on bytes that did not decode, after one fragment, chunks
\* still to come, with status 200.
C6_Witness ==
  /\ Streaming(1)
  /\ Len(script[1]) >= 3
  /\ WellFormed(script[1][1])
  /\ script[1][2].kind = "Chunk" /\ IsSome(script[1][2].bytes)
  /\ ~from_slice(Unwrap(script[1][2].bytes)).ok
  /\ adapter[1] = "Empty"
  /\ status[1] = Some(HTTP_OK)
  /\ Len(body[1]) = 1

\* ------------------------------------------------------------ C7
\* The payload the fixed configuration serializes to, for prompt p.
FixedPayload(p) ==
  [inputText |-> JStr(p),
   textGenerationConfig |->
     [temperature |-> JF32(0), topP |-> JF32(0), maxTokenCount |-> JNum(100),
      stopSequences |-> << JStr("|") >>]]

\* C7: on both routes, the request built carries the caller's prompt and
\* temperature 0.0, topP 0.0, maxTokenCount 100 and the single stop sequence
\* "|", and so does the payload handed to the client, whatever the prompt.
C7_FixedConfiguration ==
  \A r \in Reqs :
    /\ IsSome(req[r]) =>
         /\ Unwrap(req[r]).input_text = promptIn[r]
         /\ Unwrap(req[r]).text_generation_config =
              [temperature |-> 0, top_p |-> 0, max_token_count |-> 100,
               stop_sequences |-> << "|" >>]
    /\ IsSome(sent[r]) => Unwrap(sent[r]) = FixedPayload(promptIn[r])
    /\ pc[r] # "idle" => IsSome(req[r])

\* A streamed request whose prompt is the stop sequence itself reached the client.
C7_Witness ==
  /\ route[1] = "streamed"
  /\ promptIn[1] = "|"
  /\ IsSome(sent[1])
  /\ invokes[1] = 1

\* ------------------------------------------------------------ C8
\* C8: when the k-th event of the source is a control event, at most k events
\* are ever received and fewer than k fragments emitted, and once the control
\* event was received the stream has ended.
C8_ControlEndsStream ==
  \A r \in Reqs : \A k \in 1..Len(script[r]) :
    (Streaming(r) /\ script[r][k].kind = "Unknown") =>
      /\ pos[r] <= k
      /\ Len(body[r]) < k
      /\ pos[r] = k => adapter[r] = "Empty" /\ pc[r] = "done"

\* A control event came second, a well-formed data chunk third; the stream
\* ended with the one fragment before the control event.
C8_Witness ==
  /\ Streaming(1)
  /\ Len(script[1]) >= 3
  /\ WellFormed(script[1][1])
  /\ script[1][2].kind = "Unknown"
  /\ WellFormed(script[1][3])
  /\ adapter[1] = "Empty"
  /\ pos[1] = 2
  /\ Len(body[1]) = 1

\* ------------------------------------------------------------ C9
\* C9: once a request's stream has ended, no step changes its adapter state,
\* its body, the number of events received or the number of polls.
C9_ClosedIsAbsorbing ==
  [][\A r \in Reqs :
       Ended(r) =>
         /\ adapter'[r] = adapter[r]
         /\ body'[r] = body[r]
         /\ pos'[r] = pos[r]
         /\ polls'[r] = polls[r]
         /\ script'[r] = script[r]]_vars

\* A stream ended normally while its source still had events to deliver.
C9_Witness ==
  /\ Streaming(1)
  /\ adapter[1] = "Empty"
  /\ pc[1] = "done"
  /\ pos[1] < Len(script[1])
  /\ Len(body[1]) >= 1

\* ------------------------------------------------------------ C10
\* The pull in flight meets one of the non-success conditions: end-of-stream,
\* channel failure, control chunk, decode failure or empty result.
PullWillNotSucceed(r) ==
  \/ pos[r] >= Len(script[r])
  \/ script[r][pos[r] + 1].kind \in {"RecvErr", "Unknown"}
  \/ Malformed(script[r][pos[r] + 1])

\* C10: every pull that does not yield a fragment (end-of-stream, channel
\* failure, control chunk, decode failure, empty result) moves the adapter to
\* Closed in that same pull.
C10_NonSuccessCloses ==
  [][\A r \in Reqs :
       (adapter[r] = "Future" /\ adapter'[r] # "Future" /\ ~disconnected'[r]
          /\ PullWillNotSucceed(r)) =>
         adapter'[r] = "Empty" /\ pc'[r] = "done"]_vars

\* ------------------------------------------------------------ C11
\* C11: the events received from a request's source never outnumber the polls
\* the HTTP layer made on its body, and the events received exceed the
\* fragments emitted by at most one (the event that ended the stream); while
\* the stream is open every event received has been emitted.
C11_PullBased ==
  \A r \in Reqs : Streaming(r) =>
    /\ pos[r] <= polls[r]
    /\ Len(body[r]) <= pos[r]
    /\ pos[r] - Len(body[r]) <= 1
    /\ adapter[r] \in {"Value", "Future"} => pos[r] = Len(body[r])

\* Two polls were answered with two fragments; two more events wait at the
\* source, unreceived, until the HTTP layer polls again.
C11_Witness ==
  /\ Streaming(1)
  /\ adapter[1] = "Value"
  /\ polls[1] = 2
  /\ pos[1] = 2
  /\ Len(body[1]) = 2
  /\ Len(script[1]) = 4

\* ------------------------------------------------------------ C12
\* The fragments the closure yields when driven alone over script s from
\* position n until it ends the stream.
RECURSIVE SoloRun(_, _)
SoloRun(s, n) ==
  LET step == unfold_closure(recv(s, n)) IN
  IF step.kind = "Some" THEN << step.text >> \o SoloRun(s, n + 1) ELSE << >>

\* C12: with all requests served concurrently in any interleaving, each
\* streamed request's body is a prefix of what the adapter yields when run
\* alone over that request's own source, all of it once its stream has ended;
\* the events taken from its source are those its own pulls took; and the
\* shared client handle is the one built at startup.
C12_RequestsIsolated ==
  /\ client = create_client
  /\ \A r \in Reqs : Streaming(r) =>
       LET alone == SoloRun(script[r], 0) IN
       /\ Len(body[r]) <= Len(alone)
       /\ \A i \in 1..Len(body[r]) : body[r][i] = alone[i]
       /\ Ended(r) => body[r] = alone
       /\ pos[r] = Len(body[r])
                   + (IF Ended(r) /\ Len(alone) < Len(script[r]) THEN 1 ELSE 0)
       /\ pos[r] <= polls[r]

\* Two requests are both in the middle of a pull, each having been delivered
\* a first fragment from its own source, the two fragments differing.
C12_Witness ==
  /\ Streaming(1) /\ Streaming(2)
  /\ adapter[1] = "Future" /\ adapter[2] = "Future"
  /\ Len(body[1]) = 1 /\ Len(body[2]) = 1
  /\ body[1][1] # body[2][1]
  /\ script[1] # script[2]

\* ------------------------------------------------------------ C13
\* C13: once the HTTP client of a streamed request has gone away, its
\* ChunkSource is released, and no later step receives an event from it,
\* polls its stream or adds to its body, whatever the source still holds.
C13_DisconnectReleasesSource ==
  [][\A r \in Reqs :
       /\ disconnected'[r] => source'[r] = "released"
       /\ disconnected[r] =>
            /\ disconnected'[r]
            /\ pos'[r] = pos[r]
            /\ polls'[r] = polls[r]
            /\ body'[r] = body[r]
            /\ adapter'[r] = "Dropped"]_vars

\* The client went away during a pull, after one fragment, while the source
\* still had events to deliver.
C13_Witness ==
  /\ Streaming(1)
  /\ disconnected[1]
  /\ source[1] = "released"
  /\ adapter[1] = "Dropped"
  /\ polls[1] = 2
  /\ pos[1] = 1
  /\ Len(body[1]) = 1
  /\ Len(script[1]) >= 3
  /\ WellFormed(script[1][2])

\* ------------------------------------------------------------ C14
\* C14: on both routes a request calls the inference client at most once:
\* not at all before it arrives or when encoding failed (answered 400), and
\* exactly once in every other state, whatever the call or the decoding of
\* its reply came to.
C14_InvokedAtMostOnce ==
  \A r \in Reqs :
    /\ invokes[r] <= 1
    /\ pc[r] = "idle" => invokes[r] = 0
    /\ EncodingFailed(r) => invokes[r] = 0 /\ status[r] = Some(BAD_REQUEST)
    /\ (pc[r] # "idle" /\ ~EncodingFailed(r)) => invokes[r] = 1 /\ IsSome(sent[r])

\* A /prompt request whose call failed ended with the one call it made.
C14_Witness ==
  /\ route[1] = "prompt"
  /\ IsSome(reply[1]) /\ ~Unwrap(reply[1]).ok
  /\ pc[1] = "panicked"
  /\ invokes[1] = 1

\* ------------------------------------------------------------ C15
\* The pull in flight is answered by the source with an event or with
\* end-of-stream (the channel does not fail).
SourceAnswers(r) ==
  pos[r] >= Len(script[r]) \/ script[r][pos[r] + 1].kind # "RecvErr"

\* C15: every pull the source answers either emits one fragment and leaves
\* the adapter Open, or closes it emitting nothing, whatever the shape of the
\* chunk delivered: a data chunk without payload bytes included.
C15_PullEmitsOrCloses ==
  [][\A r \in Reqs :
       (adapter[r] = "Future" /\ adapter'[r] # "Future" /\ ~disconnected'[r]
          /\ SourceAnswers(r)) =>
         \/ /\ adapter'[r] = "Value"
            /\ pc'[r] = "streaming"
            /\ Len(body'[r]) = Len(body[r]) + 1
         \/ /\ adapter'[r] = "Empty"
            /\ pc'[r] = "done"
            /\ body'[r] = body[r]]_vars

====
